---- MODULE Spec2Model ----
(***************************************************************************)
(* Model of amethyst_network/src/network_socket.rs: the NetSocketSystem,   *)
(* its per-tick run(), and the two worker threads started by               *)
(* start_sending and start_receiving.                                      *)
(*                                                                         *)
(* Three threads are interleaved: the tick thread (the application's own   *)
(* systems, then NetSocketSystem::run: its first loop as one step, its     *)
(* second loop one packet per step), the sender worker and the receiver    *)
(* worker.  The two crossbeam channels are the sequences ctrlQueue and     *)
(* dataQueue.                                                              *)
(***************************************************************************)
EXTENDS Integers, Sequences, FiniteSets, TLC

\* ---------------------------------------------------------------- bounds
MaxInputs == 3       \* inputs from outside in one behaviour: notifications of the
                     \* transport, connections and events written by the application
MaxThroughput == 1   \* largest configured max_throughput
MaxCtrl == 1         \* a tick starts only while the control queue is this short

\* A variant with a single pass.
ScanPasses_Once == 2 - 1

\* for _ in 0..2 : the number of passes over the registry per packet
ScanPasses == 2

Addrs == {"A", "B"}
States == {"Connecting", "Connected", "Disconnecting", "Disconnected"}

\* Payloads as they arrive on the wire; 0 is a payload that does not decode.
Payloads == {0, 1, 2}
\* SocketEvent: a Packet, or any other transport notification.
Notifications ==
    [kind : {"Packet"}, addr : Addrs, payload : Payloads]
        \cup {[kind |-> "Other", addr |-> "A", payload |-> 0]}
\* Before the receiver worker has taken anything.
NoNote == [kind |-> "None", addr |-> "A", payload |-> 0]

VARIABLES
    conns,            \* WriteStorage<NetConnection>, in join order
    ctrlQueue,        \* channel of InternalSocketEvent (tick -> sender worker)
    dataQueue,        \* channel of Packet (receiver worker -> tick)
    sent,             \* packets handed to the transport's send handle
    max_throughput,   \* config.max_throughput
    systemAlive,      \* the NetSocketSystem has not been dropped
    pc,               \* tick thread: "idle", "B" (second loop), "end", "panic"
    counter,          \* enumerate(): index given to the next packet taken
    senderPc,         \* sender worker: "drain" (in or between try_iter passes), "loop" (broke out),
                      \* "done" (the thread has ended and dropped its end of the channel)
    receiverPc,       \* receiver worker: "iter" (inside receiver.iter()), "loop"
    nextEv,           \* identity of the next event the application writes
    \* history, read by the properties only
    startConns,       \* the registry when the current tick began
    emitted,          \* control messages enqueued by the current tick
    fwdCount,         \* per event: how often it was put on the control queue
    tickPkts,         \* packets the current tick took off the data queue
    avail,            \* packets queued for the current second loop before it ended
    recvTaken,        \* notifications the receiver worker took from the transport
    recvFailed,       \* the receiver worker's send failed at least once
    lastNote,         \* the notification the receiver worker took last
    origin,           \* per event: the connection (position in conns) it was written to
    stopEmitted,      \* the connections (positions in conns) a Stop was enqueued for
    deferred,         \* packets the last finished second loop left in the data queue
    inputs            \* inputs taken from outside so far

vars == <<conns, ctrlQueue, dataQueue, sent, max_throughput, systemAlive, pc,
          counter, senderPc, receiverPc, nextEv, startConns, emitted, fwdCount,
          tickPkts, avail, recvTaken, recvFailed, lastNote, origin,
          stopEmitted, deferred, inputs>>

hist == <<startConns, emitted, fwdCount, tickPkts, avail, recvTaken, recvFailed,
          lastNote, origin, stopEmitted>>

\* ------------------------------------------------- collaborators of run()

\* NetConnection::new(addr): a connection in Connecting with empty buffers.
NetConnectionNew(a) ==
    [target_addr |-> a, state |-> "Connecting",
     send_buffer |-> <<>>, receive_buffer |-> <<>>]

\* send_buffer_early_read(): the unread events, each handed out once.
send_buffer_early_read(c) ==
    [events |-> c.send_buffer, conn |-> [c EXCEPT !.send_buffer = <<>>]]

\* deserialize_event(payload): Ok(event) or Err.
deserialize_event(payload) ==
    IF payload = 1 THEN [ok |-> TRUE, ev |-> "Connect"]
    ELSE IF payload = 2 THEN [ok |-> TRUE, ev |-> "Data"]
    ELSE [ok |-> FALSE, ev |-> "None"]

\* send_event(ev, target, sender): the packet given to the transport.
send_event(ev, target) == [addr |-> target, payload |-> ev + 100]

SendEvents(target, events) == [type |-> "SendEvents", target |-> target, events |-> events]
Stop == [type |-> "Stop", target |-> "A", events |-> <<>>]

\* ------------------------------------------------------------ run(): loop 1

\* A variant that forwards for Connected only.
Forwards_ConnectedOnly(state) == state = "Connected"

\* state == Connected || state == Connecting
Forwards(state) == state \in {"Connected", "Connecting"}

\* A variant with a plain else: every state that does not forward sends Stop.
EmitsStop_Else(state) == TRUE

\* else if state == Disconnected
EmitsStop(state) == state = "Disconnected"

\* What one iteration of the first loop sends for connection c, and c afterwards.
Outbound(c) ==
    IF Forwards(c.state)
    THEN LET r == send_buffer_early_read(c)
         IN  [msgs |-> <<SendEvents(c.target_addr, r.events)>>, conn |-> r.conn]
    ELSE IF EmitsStop(c.state)
    THEN [msgs |-> <<Stop>>, conn |-> c]
    ELSE [msgs |-> <<>>, conn |-> c]

\* for net_connection in (&mut net_connections).join(): connections i..Len(cs)
\* in join order; the messages sent and the registry afterwards.
RECURSIVE FirstLoop(_, _)
FirstLoop(cs, i) ==
    IF i > Len(cs) THEN [msgs |-> <<>>, conns |-> cs]
    ELSE LET o == Outbound(cs[i])
             rest == FirstLoop([cs EXCEPT ![i] = o.conn], i + 1)
         IN  [msgs |-> o.msgs \o rest.msgs, conns |-> rest.conns]

\* ------------------------------------------------------------ run(): loop 2

\* A variant whose next() may return None while packets are queued.
TryIterEnds_Early(q) == TRUE

\* A variant that waits for the next packet, as iter() does.
TryIterEnds_Blocks(q) == FALSE

\* try_iter(): next() returns None, and the loop ends, as soon as the channel
\* holds nothing; it never waits for a packet.
TryIterEnds(q) == q = <<>>

\* A variant that drains the channel before looking at the cap.
TryIterRest_DrainAll(q) == <<>>

\* try_iter().next() takes exactly the head; the rest stays in the channel.
TryIterRest(q) == Tail(q)

\* if counter >= self.config.max_throughput { break }
CapReached(c) == c >= max_throughput

\* A variant that also asks for a state in which the connection is in use.
FirstMatch_LiveOnly(cs, a) ==
    IF \E i \in 1..Len(cs) : cs[i].target_addr = a /\ Forwards(cs[i].state)
    THEN CHOOSE i \in 1..Len(cs) :
            /\ cs[i].target_addr = a /\ Forwards(cs[i].state)
            /\ \A j \in 1..(i - 1) : ~(cs[j].target_addr = a /\ Forwards(cs[j].state))
    ELSE 0

\* The first connection of the join whose target_addr is a (0: none).
FirstMatch(cs, a) ==
    IF \E i \in 1..Len(cs) : cs[i].target_addr = a
    THEN CHOOSE i \in 1..Len(cs) :
            /\ cs[i].target_addr = a
            /\ \A j \in 1..(i - 1) : cs[j].target_addr # a
    ELSE 0

\* A variant that sets matched only when the payload decoded.
Scan_MatchedOnOk(cs, p) ==
    LET i == FirstMatch(cs, p.addr)
        d == deserialize_event(p.payload)
    IN  IF i = 0 \/ ~d.ok THEN [matched |-> FALSE, conns |-> cs]
        ELSE [matched |-> TRUE,
              conns |-> [cs EXCEPT ![i].receive_buffer = Append(@, d.ev)]]

\* A variant that writes the decoder's result whether or not it is an error.
Scan_DeliverOnError(cs, p) ==
    LET i == FirstMatch(cs, p.addr)
        d == deserialize_event(p.payload)
    IN  IF i = 0 THEN [matched |-> FALSE, conns |-> cs]
        ELSE [matched |-> TRUE,
              conns |-> [cs EXCEPT ![i].receive_buffer = Append(@, d.ev)]]

\* A variant without the break: every connection of that address gets the event.
Scan_NoBreak(cs, p) ==
    LET d == deserialize_event(p.payload)
    IN  IF FirstMatch(cs, p.addr) = 0 THEN [matched |-> FALSE, conns |-> cs]
        ELSE [matched |-> TRUE,
              conns |-> [i \in 1..Len(cs) |->
                           IF cs[i].target_addr = p.addr /\ d.ok
                           THEN [cs[i] EXCEPT !.receive_buffer = Append(@, d.ev)]
                           ELSE cs[i]]]

\* One pass of the inner join: deliver to the first match, then break.
Scan(cs, p) ==
    LET i == FirstMatch(cs, p.addr)
        d == deserialize_event(p.payload)
    IN  IF i = 0 THEN [matched |-> FALSE, conns |-> cs]
        ELSE [matched |-> TRUE,
              conns |-> IF d.ok
                        THEN [cs EXCEPT ![i].receive_buffer = Append(@, d.ev)]
                        ELSE cs]

\* A variant that decodes first and builds a connection only for a payload
\* that decoded.
RECURSIVE Passes_DecodeFirst(_, _, _)
Passes_DecodeFirst(cs, p, n) ==
    IF n = 0 THEN cs
    ELSE LET s == Scan(cs, p)
         IN  IF s.matched THEN s.conns
             ELSE IF ~deserialize_event(p.payload).ok THEN cs
             ELSE Passes_DecodeFirst(Append(cs, NetConnectionNew(p.addr)), p, n - 1)

\* for _ in 0..n: scan; when nothing matched build a NetConnection and go on.
RECURSIVE Passes(_, _, _)
Passes(cs, p, n) ==
    IF n = 0 THEN cs
    ELSE LET s == Scan(cs, p)
         IN  IF s.matched THEN s.conns
             ELSE Passes(Append(cs, NetConnectionNew(p.addr)), p, n - 1)

ProcessPacket(cs, p) == Passes(cs, p, ScanPasses)

\* ----------------------------------------------------------------- history

RECURSIVE Occurrences(_, _)
Occurrences(seq, e) ==
    IF seq = <<>> THEN 0
    ELSE (IF Head(seq) = e THEN 1 ELSE 0) + Occurrences(Tail(seq), e)

RECURSIVE Forwarded(_, _)
Forwarded(msgs, e) ==
    IF msgs = <<>> THEN 0
    ELSE Occurrences(Head(msgs).events, e) + Forwarded(Tail(msgs), e)

\* ---------------------------------------------------------------- initial

Init ==
    /\ conns = <<>>
    /\ ctrlQueue = <<>>
    /\ dataQueue = <<>>
    /\ sent = <<>>
    /\ max_throughput \in 1..MaxThroughput
    /\ systemAlive = TRUE
    /\ pc = "idle"
    /\ counter = 0
    /\ senderPc = "drain"
    /\ receiverPc = "iter"
    /\ nextEv = 1
    /\ startConns = <<>>
    /\ emitted = <<>>
    /\ fwdCount = [e \in 1..MaxInputs |-> 0]
    /\ tickPkts = <<>>
    /\ avail = 0
    /\ recvTaken = 0
    /\ recvFailed = FALSE
    /\ lastNote = NoNote
    /\ origin = [e \in 1..MaxInputs |-> 0]
    /\ stopEmitted = {}
    /\ deferred = 0
    /\ inputs = 0

\* ---------------------------------------------- the application, between ticks

AppCreate(a, s) ==
    /\ pc = "idle" /\ systemAlive
    /\ inputs < MaxInputs
    /\ inputs' = inputs + 1
    /\ conns' = Append(conns, [NetConnectionNew(a) EXCEPT !.state = s])
    /\ UNCHANGED <<ctrlQueue, dataQueue, sent, max_throughput, systemAlive, pc,
                   counter, senderPc, receiverPc, nextEv, hist, deferred>>

AppSend(i) ==
    /\ pc = "idle" /\ systemAlive
    /\ inputs < MaxInputs
    /\ inputs' = inputs + 1
    /\ conns' = [conns EXCEPT ![i].send_buffer = Append(@, nextEv)]
    /\ nextEv' = nextEv + 1
    /\ origin' = [origin EXCEPT ![nextEv] = i]
    /\ UNCHANGED <<ctrlQueue, dataQueue, sent, max_throughput, systemAlive, pc,
                   counter, senderPc, receiverPc, startConns, emitted, fwdCount,
                   tickPkts, avail, recvTaken, recvFailed, lastNote, stopEmitted,
                   deferred>>

DropSystem ==
    /\ pc = "idle" /\ systemAlive
    /\ systemAlive' = FALSE
    /\ UNCHANGED <<conns, ctrlQueue, dataQueue, sent, max_throughput, pc,
                   counter, senderPc, receiverPc, nextEv, hist, deferred, inputs>>

\* ------------------------------------------------------- NetSocketSystem::run

\* self.transport_sender.send(..): Err only when the channel's receiving end, which
\* the sender worker's closure owns, has been dropped.
SendFails == senderPc = "done"

\* run() is entered and executes its first loop.  The loop only writes the
\* registry, which no other thread touches, and appends to the unbounded
\* control channel, so it is one step.
PhaseA ==
    /\ pc = "idle" /\ systemAlive
    /\ Len(ctrlQueue) <= MaxCtrl
    /\ \E r \in {FirstLoop(conns, 1)} :
           IF SendFails /\ r.msgs # <<>>
           THEN \* the first send returns Err and expect() panics
                /\ pc' = "panic"
                /\ UNCHANGED <<ctrlQueue, conns, emitted, fwdCount, startConns, avail,
                               stopEmitted>>
           ELSE /\ ctrlQueue' = ctrlQueue \o r.msgs
                /\ conns' = r.conns
                /\ emitted' = r.msgs
                /\ fwdCount' = [e \in DOMAIN fwdCount |-> fwdCount[e] + Forwarded(r.msgs, e)]
                /\ startConns' = conns
                /\ pc' = "B"
                /\ avail' = Len(dataQueue)
                /\ stopEmitted' = stopEmitted \cup
                      {i \in 1..Len(conns) : Outbound(conns[i]).msgs = <<Stop>>}
    /\ UNCHANGED <<dataQueue, sent, max_throughput, systemAlive, counter, senderPc,
                   receiverPc, nextEv, tickPkts, recvTaken, recvFailed, lastNote, origin,
                   deferred, inputs>>

PhaseBStep ==
    /\ pc = "B" /\ dataQueue # <<>>
    /\ LET p == Head(dataQueue)
       IN  /\ dataQueue' = TryIterRest(dataQueue)
           /\ conns' = ProcessPacket(conns, p)
           /\ tickPkts' = Append(tickPkts, p)
    /\ counter' = counter + 1
    /\ pc' = IF CapReached(counter) THEN "end" ELSE "B"
    /\ deferred' = IF CapReached(counter) THEN Len(dataQueue') ELSE deferred
    /\ UNCHANGED <<ctrlQueue, sent, max_throughput, systemAlive, senderPc,
                   receiverPc, nextEv, startConns, emitted, fwdCount, avail,
                   recvTaken, recvFailed, lastNote, origin, stopEmitted, inputs>>

PhaseBDrained ==
    /\ pc = "B" /\ TryIterEnds(dataQueue)
    /\ pc' = "end"
    /\ deferred' = Len(dataQueue)
    /\ UNCHANGED <<conns, ctrlQueue, dataQueue, sent, max_throughput, systemAlive,
                   counter, senderPc, receiverPc, nextEv, hist, inputs>>

\* info!("end of NS::run"): run() returns and its locals are gone.
RunEnd ==
    /\ pc = "end"
    /\ pc' = "idle"
    /\ counter' = 0
    /\ startConns' = <<>>
    /\ emitted' = <<>>
    /\ tickPkts' = <<>>
    /\ avail' = 0
    /\ UNCHANGED <<conns, ctrlQueue, dataQueue, sent, max_throughput, systemAlive,
                   senderPc, receiverPc, nextEv, fwdCount, recvTaken, recvFailed, lastNote,
                   origin, stopEmitted, deferred, inputs>>

RunStep == PhaseBStep \/ PhaseBDrained \/ RunEnd

\* -------------------------------------------------------------- sender worker

\* A variant that walks the list from its end.
RECURSIVE SendAll_Reversed(_, _)
SendAll_Reversed(events, target) ==
    IF events = <<>> THEN <<>>
    ELSE SendAll_Reversed(Tail(events), target) \o <<send_event(Head(events), target)>>

\* for ev in events { send_event(ev, target, &sender) }
RECURSIVE SendAll(_, _)
SendAll(events, target) ==
    IF events = <<>> THEN <<>>
    ELSE <<send_event(Head(events), target)>> \o SendAll(Tail(events), target)

\* A variant in which Stop ends the thread.
StopBreaksTo_ThreadEnd == "done"

\* InternalSocketEvent::Stop => break: the break leaves the for over try_iter();
\* the enclosing loop goes on.
StopBreaksTo == "loop"

\* A variant in which the end of the pass throws away what is still queued.
RestAfterStop_Discard(q) == <<>>

\* The iterator only borrowed the channel: what it did not take stays queued.
RestAfterStop(q) == Tail(q)

SenderTake ==
    /\ senderPc = "drain" /\ ctrlQueue # <<>>
    /\ LET m == Head(ctrlQueue)
       IN  IF m.type = "SendEvents"
           THEN /\ ctrlQueue' = Tail(ctrlQueue)
                /\ sent' = sent \o SendAll(m.events, m.target)
                /\ senderPc' = "drain"
           ELSE /\ ctrlQueue' = RestAfterStop(ctrlQueue)
                /\ sent' = sent
                /\ senderPc' = StopBreaksTo
    /\ UNCHANGED <<conns, dataQueue, max_throughput, systemAlive, pc, counter,
                   receiverPc, nextEv, hist, deferred, inputs>>

\* try_iter() finds the channel empty (whether or not its sending end is still
\* there): next() returns None and the for ends.
SenderPassEnds ==
    /\ senderPc = "drain" /\ ctrlQueue = <<>>
    /\ senderPc' = "loop"
    /\ UNCHANGED <<conns, ctrlQueue, dataQueue, sent, max_throughput, systemAlive, pc,
                   counter, receiverPc, nextEv, hist, deferred, inputs>>

\* thread::spawn(move || loop { ... }): after the for has ended, by the break or
\* on an empty channel, the outer loop starts the next try_iter pass.
SenderLoop ==
    /\ senderPc = "loop"
    /\ senderPc' = "drain"
    /\ UNCHANGED <<conns, ctrlQueue, dataQueue, sent, max_throughput, systemAlive, pc,
                   counter, receiverPc, nextEv, hist, deferred, inputs>>

SenderStep == SenderTake \/ SenderPassEnds \/ SenderLoop

\* ------------------------------------------------------------ receiver worker

\* SocketEvent::Packet(packet): the packet a Packet notification carries.
PacketOf(n) == [addr |-> n.addr, payload |-> n.payload]

\* A variant that puts the packet at the head of the channel.
Enqueue_Front(q, p) == <<p>> \o q

\* receive_queue.send(packet.clone()): the packet joins the channel at its tail.
Enqueue(q, p) == Append(q, p)

ReceiverRecv(n) ==
    /\ receiverPc = "iter"
    /\ inputs < MaxInputs
    /\ inputs' = inputs + 1
    /\ recvTaken' = recvTaken + 1
    /\ lastNote' = n
    /\ IF n.kind = "Packet" /\ systemAlive
       THEN /\ dataQueue' = Enqueue(dataQueue, PacketOf(n))
            /\ avail' = IF pc = "B" THEN avail + 1 ELSE avail
            /\ UNCHANGED <<receiverPc, recvFailed>>
       ELSE IF n.kind = "Packet"
       THEN /\ recvFailed' = TRUE
            /\ receiverPc' = "loop"
            /\ UNCHANGED <<dataQueue, avail>>
       ELSE UNCHANGED <<dataQueue, avail, receiverPc, recvFailed>>
    /\ UNCHANGED <<conns, ctrlQueue, sent, max_throughput, systemAlive, pc,
                   counter, senderPc, nextEv, startConns, emitted, fwdCount, tickPkts,
                   origin, stopEmitted, deferred>>

ReceiverLoop ==
    /\ receiverPc = "loop"
    /\ receiverPc' = "iter"
    /\ UNCHANGED <<conns, ctrlQueue, dataQueue, sent, max_throughput, systemAlive, pc,
                   counter, senderPc, nextEv, hist, deferred, inputs>>

\* ------------------------------------------------------------- specification

Next ==
    \/ \E a \in Addrs, s \in States : AppCreate(a, s)
    \/ \E i \in 1..Len(conns) : AppSend(i)
    \/ DropSystem
    \/ PhaseA
    \/ PhaseBStep
    \/ PhaseBDrained
    \/ RunEnd
    \/ SenderTake
    \/ SenderPassEnds
    \/ SenderLoop
    \/ \E n \in Notifications : ReceiverRecv(n)
    \/ ReceiverLoop

Spec == Init /\ [][Next]_vars

\* The tick thread is scheduled: a started run() keeps executing.
FairSpec == Spec /\ WF_vars(RunStep)

\* All threads are scheduled: the dispatcher keeps calling run() while the system
\* lives, a started run() keeps executing, and the sender worker keeps executing.
LiveSpec == Spec /\ WF_vars(PhaseA) /\ WF_vars(RunStep) /\ WF_vars(SenderStep)

\* ==================================================================== claims

InTick == pc \in {"B", "end"}

Min(a, b) == IF a < b THEN a ELSE b

WellFormed(p) == deserialize_event(p.payload).ok

Unique(cs) ==
    \A i, j \in 1..Len(cs) : i # j => cs[i].target_addr # cs[j].target_addr

AddrsOf(cs) == {cs[i].target_addr : i \in 1..Len(cs)}

\* The lowest position in cs of a connection with address a (0: none).
IndexOf(cs, a) ==
    LET S == {i \in 1..Len(cs) : cs[i].target_addr = a}
    IN  IF S = {} THEN 0 ELSE CHOOSE i \in S : \A j \in S : i <= j

\* The events decoded from the well-formed packets of pkts that came from a.
RECURSIVE DecodedFrom(_, _)
DecodedFrom(pkts, a) ==
    IF pkts = <<>> THEN <<>>
    ELSE (IF Head(pkts).addr = a /\ WellFormed(Head(pkts))
          THEN <<deserialize_event(Head(pkts).payload).ev>> ELSE <<>>)
         \o DecodedFrom(Tail(pkts), a)

\* The incoming buffer connection i had when the current tick began.
IncAtStart(i) ==
    IF i <= Len(startConns) THEN startConns[i].receive_buffer ELSE <<>>

\* Every connection's incoming buffer is what it was at tick start, followed, for
\* the first connection of each address, by the events decoded from this tick's
\* well-formed packets from that address, in order.
DeliveredExactly ==
    \A i \in 1..Len(conns) :
        conns[i].receive_buffer =
            IncAtStart(i) \o
            (IF i = IndexOf(conns, conns[i].target_addr)
             THEN DecodedFrom(tickPkts, conns[i].target_addr) ELSE <<>>)

\* The control messages the first loop owes for registry cs, in join order.
RECURSIVE ExpectedMsgs(_)
ExpectedMsgs(cs) ==
    IF cs = <<>> THEN <<>>
    ELSE (IF Head(cs).state \in {"Connected", "Connecting"}
          THEN <<[type |-> "SendEvents", target |-> Head(cs).target_addr,
                  events |-> Head(cs).send_buffer]>>
          ELSE IF Head(cs).state = "Disconnected" THEN <<Stop>>
          ELSE <<>>)
         \o ExpectedMsgs(Tail(cs))

\* C1 -- Budget correctness as claimed: when the second loop of run() has ended,
\* the number of packets it took and processed is exactly
\* min(packets queued for it, max_throughput).
C1_BudgetIsMinQueuedCap ==
    pc = "end" => counter = Min(avail, max_throughput)

\* C2 -- Exactly-once drain: no event is ever put on the control queue twice; and
\* once the first loop has run, every connection that was Connected or Connecting
\* at tick start has an empty outgoing buffer, and the events it held were sent
\* in this tick in one SendEvents message carrying exactly that buffer.
C2_ExactlyOnceDrain ==
    /\ \A e \in DOMAIN fwdCount : fwdCount[e] <= 1
    /\ InTick =>
         \A i \in 1..Len(startConns) :
            startConns[i].state \in {"Connected", "Connecting"} =>
              /\ conns[i].send_buffer = <<>>
              /\ \E k \in 1..Len(emitted) :
                    emitted[k] = [type |-> "SendEvents",
                                  target |-> startConns[i].target_addr,
                                  events |-> startConns[i].send_buffer]
              /\ \A k \in 1..Len(startConns[i].send_buffer) :
                    /\ Forwarded(emitted, startConns[i].send_buffer[k]) = 1
                    /\ fwdCount[startConns[i].send_buffer[k]] = 1

\* A tick that forwards an event while another event, forwarded by an earlier
\* tick, is not forwarded again.
C2_Witness ==
    /\ pc = "B"
    /\ \E e1, e2 \in DOMAIN fwdCount :
          /\ fwdCount[e1] = 1 /\ Forwarded(emitted, e1) = 0
          /\ fwdCount[e2] = 1 /\ Forwarded(emitted, e2) = 1

\* C3 -- New-connection delivery: when this tick has processed a well-formed
\* packet from an address that no connection had at tick start, the registry holds
\* exactly one connection with that address, it is new, and its incoming buffer
\* holds the events decoded from this tick's packets from that address.
C3_NewConnectionDelivery ==
    InTick =>
      \A a \in Addrs \ AddrsOf(startConns) :
         (\E k \in 1..Len(tickPkts) : tickPkts[k].addr = a /\ WellFormed(tickPkts[k])) =>
            /\ Cardinality({i \in 1..Len(conns) : conns[i].target_addr = a}) = 1
            /\ IndexOf(conns, a) > Len(startConns)
            /\ conns[IndexOf(conns, a)].receive_buffer = DecodedFrom(tickPkts, a)
            /\ DecodedFrom(tickPkts, a) # <<>>

\* The tick is over and a well-formed packet from an unknown address was processed.
C3_Witness ==
    /\ pc = "end"
    /\ \E k \in 1..Len(tickPkts) :
          /\ tickPkts[k].addr \notin AddrsOf(startConns)
          /\ WellFormed(tickPkts[k])

\* C4 -- Address uniqueness is kept by run(): if no two connections shared an
\* address when the tick began, none do at any later point of the tick.
C4_AddressUniqueness ==
    (InTick /\ Unique(startConns)) => Unique(conns)

\* The tick processed two packets from one address that was unknown at its start.
C4_Witness ==
    /\ pc = "end"
    /\ Unique(startConns)
    /\ \E k, l \in 1..Len(tickPkts) :
          /\ k # l
          /\ tickPkts[k].addr = tickPkts[l].addr
          /\ tickPkts[k].addr \notin AddrsOf(startConns)

\* C5 -- No packet is lost: the data queue changes only by a packet being added
\* at its tail, or by its head being taken by the second loop, which processes it:
\* the event is appended to a connection of that address when the payload decodes,
\* and nothing is appended when it does not.  What is not taken stays, unchanged
\* and in order.
C5_NoPacketLost ==
    [][dataQueue' # dataQueue =>
         \/ \E a \in Addrs, x \in Payloads :
               dataQueue' = Append(dataQueue, [addr |-> a, payload |-> x])
         \/ /\ pc = "B" /\ dataQueue # <<>>
            /\ dataQueue' = Tail(dataQueue)
            /\ tickPkts' = Append(tickPkts, Head(dataQueue))
            /\ LET p == Head(dataQueue)
                   i == IndexOf(conns', p.addr)
                   before == IF i <= Len(conns) THEN conns[i].receive_buffer ELSE <<>>
               IN  /\ i # 0
                   /\ conns'[i].receive_buffer =
                        IF WellFormed(p)
                        THEN Append(before, deserialize_event(p.payload).ev)
                        ELSE before
      ]_vars

\* The cap ended the second loop while packets were still queued.
C5_Witness ==
    /\ pc = "end"
    /\ counter > max_throughput
    /\ dataQueue # <<>>

\* C6 -- Fault isolation: in a tick that processed a packet whose payload does not
\* decode, that packet added nothing to any incoming buffer, every well-formed
\* packet of the tick, before or after it and from any address, was delivered, and
\* the loop did not end early: below the cap it ended only on an empty queue.
C6_FaultIsolation ==
    (InTick /\ \E k \in 1..Len(tickPkts) : ~WellFormed(tickPkts[k])) =>
        /\ DeliveredExactly
        /\ (pc = "end" /\ counter <= max_throughput) => counter = avail

\* A payload that does not decode was followed, in the same tick, by a
\* well-formed packet.
C6_Witness ==
    /\ pc = "end"
    /\ \E k, l \in 1..Len(tickPkts) :
          /\ k < l
          /\ ~WellFormed(tickPkts[k])
          /\ WellFormed(tickPkts[l])
          /\ DecodedFrom(tickPkts, tickPkts[l].addr) # <<>>

\* C7 -- The first loop emits, in join order, one SendEvents with the outgoing
\* buffer per connection in Connected or Connecting (also when the buffer is
\* empty), one Stop per connection in Disconnected and nothing for Disconnecting,
\* whose outgoing buffer stays as it was.
C7_PhaseAEmission ==
    InTick =>
      /\ emitted = ExpectedMsgs(startConns)
      /\ \A i \in 1..Len(startConns) :
            startConns[i].state \in {"Disconnecting", "Disconnected"} =>
               conns[i].send_buffer = startConns[i].send_buffer

\* A registry of a forwarding connection with an event, then a Disconnected one:
\* SendEvents, then Stop.
C7_Witness ==
    /\ pc = "B"
    /\ Len(startConns) = 2
    /\ startConns[1].state = "Connected" /\ startConns[1].send_buffer # <<>>
    /\ startConns[2].state = "Disconnected"
    /\ emitted = <<[type |-> "SendEvents", target |-> startConns[1].target_addr,
                    events |-> startConns[1].send_buffer], Stop>>

\* C8 -- run() never blocks: whatever the workers do, a run() that has started
\* reaches its end, and its second loop never holds more than max_throughput
\* processed packets while it is still going.
C8_RunTerminates ==
    /\ [](pc = "B" => counter <= max_throughput)
    /\ (pc # "idle") ~> (pc = "idle")

\* run() ended on the cap with the control queue still holding what it sent.
C8_Witness ==
    /\ pc = "end"
    /\ counter > max_throughput
    /\ ctrlQueue # <<>>

\* C9 -- As documented: when a Connect event and another event from the same
\* source are processed in the same tick, only the Connect event reaches that
\* connection's incoming buffer.
C9_OnlyConnectionEventDelivered ==
    pc = "end" =>
      \A a \in Addrs :
         ("Connect" \in {DecodedFrom(tickPkts, a)[k] : k \in 1..Len(DecodedFrom(tickPkts, a))}
          /\ "Data" \in {DecodedFrom(tickPkts, a)[k] : k \in 1..Len(DecodedFrom(tickPkts, a))})
         => LET i == IndexOf(conns, a)
            IN  \A k \in (Len(IncAtStart(i)) + 1)..Len(conns[i].receive_buffer) :
                   conns[i].receive_buffer[k] = "Connect"

\* C10 -- As claimed: once its send into the data queue has failed, the receiver
\* worker takes no further notification from the transport.
C10_ReceiverStopsAfterFailure ==
    [][recvFailed => recvTaken' = recvTaken]_vars

\* C11 -- Receiver worker ordering: a step that takes a notification from the
\* transport takes exactly one; a Packet is put on the data queue once, at its
\* tail (or not at all when the system is gone), and any other notification leaves
\* the data queue as it was and the worker inside its loop, able to take the next
\* one.  Nothing else adds to the data queue, and what leaves it leaves at the head,
\* so the queue holds the packets in the order the transport yielded them.
C11_ReceiverOrdering ==
    [][/\ recvTaken' # recvTaken =>
           /\ recvTaken' = recvTaken + 1
           /\ lastNote'.kind = "Packet" =>
                 /\ dataQueue' \in {dataQueue, Append(dataQueue, PacketOf(lastNote'))}
                 /\ systemAlive => dataQueue' = Append(dataQueue, PacketOf(lastNote'))
           /\ lastNote'.kind # "Packet" =>
                 /\ dataQueue' = dataQueue
                 /\ receiverPc' = "iter"
                 /\ recvFailed' = recvFailed
       /\ (recvTaken' = recvTaken /\ dataQueue' # dataQueue) =>
           (dataQueue # <<>> /\ dataQueue' = Tail(dataQueue))
      ]_vars

\* Two different packets wait in the data queue in the order they came, a
\* notification that is no Packet was taken after them, and the worker goes on.
C11_Witness ==
    /\ lastNote.kind = "Other"
    /\ receiverPc = "iter"
    /\ Len(dataQueue) = 2
    /\ dataQueue[1] # dataQueue[2]

\* The event carried by a packet that send_event built.
EventOf(pkt) == pkt.payload - 100

\* C12 -- Outbound ordering end to end: every packet handed to the transport
\* carries an event the application wrote, tagged with the address of the
\* connection it was written to; no event is handed over twice; and two events
\* of one connection are handed over in the order they stood in its outgoing
\* buffer (events are numbered in the order they are written), whether they
\* travelled in one SendEvents or in two.
C12_OutboundOrdering ==
    /\ \A k \in 1..Len(sent) :
          /\ EventOf(sent[k]) \in DOMAIN origin
          /\ origin[EventOf(sent[k])] \in 1..Len(conns)
          /\ sent[k].addr = conns[origin[EventOf(sent[k])]].target_addr
    /\ \A k, l \in 1..Len(sent) :
          k < l =>
            /\ EventOf(sent[k]) # EventOf(sent[l])
            /\ origin[EventOf(sent[k])] = origin[EventOf(sent[l])]
                  => EventOf(sent[k]) < EventOf(sent[l])

\* Two events of one connection were handed to the transport, the second of them
\* alone in the SendEvents of the current tick, the first by an earlier tick.
C12_Witness ==
    /\ pc = "B"
    /\ Len(sent) = 2
    /\ origin[EventOf(sent[1])] = origin[EventOf(sent[2])]
    /\ \E k \in 1..Len(emitted) : emitted[k].events = <<EventOf(sent[2])>>

\* The events handed to the transport so far.
SentEvents == {EventOf(sent[k]) : k \in 1..Len(sent)}

\* C13 -- Stop only ends the current drain pass: the sender worker's thread never
\* ends; whatever leaves the control queue is its head alone, so nothing queued
\* behind a Stop is thrown away; and every event that was put on the control queue
\* in a SendEvents is eventually handed to the transport, also while a
\* Disconnected connection makes every tick enqueue a Stop: again and again the
\* transport has been handed every event enqueued so far.
C13_StopEndsOnlyThePass ==
    /\ [](senderPc # "done")
    /\ [][Len(ctrlQueue') < Len(ctrlQueue) => ctrlQueue' = Tail(ctrlQueue)]_vars
    /\ []<>(\A e \in DOMAIN fwdCount : fwdCount[e] > 0 => e \in SentEvents)

\* The current tick enqueued a Stop for a Disconnected connection and, behind
\* it, a SendEvents whose event the worker has since handed to the transport.
C13_Witness ==
    /\ pc = "B"
    /\ Len(emitted) = 2
    /\ emitted[1] = Stop
    /\ emitted[2].type = "SendEvents"
    /\ emitted[2].events # <<>>
    /\ \A k \in 1..Len(emitted[2].events) : emitted[2].events[k] \in SentEvents

\* C14 -- One-shot stop, as claimed: a tick enqueues a Stop only for connections
\* that are Disconnected and have not had a Stop enqueued for them by an earlier
\* tick, so the Stops of a tick are at most as many as those connections.
C14_OneShotStop ==
    [][(pc = "idle" /\ pc' = "B") =>
          Occurrences(emitted', Stop) <=
             Cardinality({i \in 1..Len(conns) :
                            conns[i].state = "Disconnected" /\ i \notin stopEmitted})
      ]_vars

\* The addresses of this tick's packets that no connection had at tick start.
NewAddrs == {tickPkts[k].addr : k \in 1..Len(tickPkts)} \ AddrsOf(startConns)

\* C15 -- Single delivery under the double scan: during a tick, each well-formed
\* packet taken so far has added its one event to the first connection of its
\* address and to no other, and a malformed one has added nothing; the packets
\* have created one connection per address that was unknown, so never more than
\* one per packet; the connections that existed keep their place, address and
\* state.  And no packet is left unmatched by the second scan: when the first scan
\* of a registry finds nothing, the scan after the creation does.
C15_SingleDelivery ==
    /\ InTick =>
          /\ DeliveredExactly
          /\ Len(conns) = Len(startConns) + Cardinality(NewAddrs)
          /\ \A i \in 1..Len(startConns) :
                /\ conns[i].target_addr = startConns[i].target_addr
                /\ conns[i].state = startConns[i].state
          /\ \A i \in (Len(startConns) + 1)..Len(conns) :
                [conns[i] EXCEPT !.receive_buffer = <<>>] =
                    NetConnectionNew(conns[i].target_addr)
    /\ \A a \in Addrs, x \in Payloads :
          LET p == [addr |-> a, payload |-> x]
          IN  ~Scan(conns, p).matched =>
                  Scan(Append(conns, NetConnectionNew(a)), p).matched

\* A tick has processed a well-formed packet whose address two connections of
\* the registry share.
C15_Witness ==
    /\ pc = "end"
    /\ \E k \in 1..Len(tickPkts) :
          /\ WellFormed(tickPkts[k])
          /\ Cardinality({i \in 1..Len(startConns) :
                             startConns[i].target_addr = tickPkts[k].addr}) = 2

\* C16 -- Deferred packets are eventually processed: as long as the system lives
\* and ticks keep occurring, the data queue is emptied again and again, so every
\* packet put into it, also one that the cap left behind, is taken by some tick;
\* packets leave the queue only at its head, taken by the second loop, in queue
\* order; and a second loop ends without having taken a packet only when the
\* queue is empty.  This holds for every max_throughput from 1 on.
C16_DeferredEventuallyProcessed ==
    /\ [][Len(dataQueue') < Len(dataQueue) =>
             /\ pc = "B"
             /\ dataQueue' = Tail(dataQueue)
             /\ tickPkts' = Append(tickPkts, Head(dataQueue))]_vars
    /\ [][(pc = "B" /\ pc' = "end" /\ tickPkts' = <<>>) => dataQueue = <<>>]_vars
    /\ []<>(dataQueue = <<>> \/ ~systemAlive)

\* The second loop has taken a packet that the cap of the tick before left queued.
C16_Witness ==
    /\ pc = "B"
    /\ deferred > 0
    /\ Len(tickPkts) = 1

\* C17 -- Sender worker shutdown, as claimed: once the system, and with it the
\* sending end of the control queue, is gone, the sender worker's thread
\* eventually ends.
C17_SenderTerminates ==
    (~systemAlive) ~> (senderPc = "done")

C19_MatchIgnoresState ==
    InTick =>
      \A i \in 1..Len(startConns) :
         (/\ startConns[i].state \in {"Disconnecting", "Disconnected"}
          /\ i = IndexOf(startConns, startConns[i].target_addr)) =>
            /\ conns[i].receive_buffer =
                  IncAtStart(i) \o DecodedFrom(tickPkts, startConns[i].target_addr)
            /\ {j \in 1..Len(conns) : conns[j].target_addr = startConns[i].target_addr}
                  \subseteq 1..Len(startConns)

\* A tick has processed a well-formed packet from the address of a Disconnected
\* connection, whose incoming buffer now holds its event.
C19_Witness ==
    /\ pc = "end"
    /\ \E i \in 1..Len(startConns) :
          /\ startConns[i].state = "Disconnected"
          /\ DecodedFrom(tickPkts, startConns[i].target_addr) # <<>>
          /\ conns[i].receive_buffer # <<>>

\* The addresses that were unknown at tick start and from which this tick has
\* taken packets, none of which decodes.
MalformedOnlyAddrs ==
    {a \in NewAddrs : DecodedFrom(tickPkts, a) = <<>>}

\* C20 -- Connection creation precedes decoding: when every packet a tick has
\* taken from an address unknown at its start fails to decode, the registry
\* nevertheless holds exactly one connection of that address, built by this tick,
\* as NetConnection::new leaves it, its incoming buffer empty; and no step ever
\* takes a connection out of the registry or changes its address, so it is still
\* there after the tick.
C20_CreationPrecedesDecoding ==
    /\ [](InTick =>
            \A a \in MalformedOnlyAddrs :
               /\ Cardinality({i \in 1..Len(conns) : conns[i].target_addr = a}) = 1
               /\ IndexOf(conns, a) > Len(startConns)
               /\ conns[IndexOf(conns, a)] = NetConnectionNew(a))
    /\ [][\A i \in 1..Len(conns) :
             /\ i <= Len(conns')
             /\ conns'[i].target_addr = conns[i].target_addr]_vars

\* A tick has ended in which the only packet from an unknown address did not
\* decode, and the registry holds the connection built for it.
C20_Witness ==
    /\ pc = "end"
    /\ MalformedOnlyAddrs # {}
    /\ \E i \in 1..Len(conns) :
          /\ i > Len(startConns)
          /\ conns[i].target_addr \in MalformedOnlyAddrs
          /\ conns[i].receive_buffer = <<>>

====
